---- MODULE Spec2Model ----
(***************************************************************************)
(* A model of the LRU cache of lru/lru.go.                                 *)
(*                                                                         *)
(* The cache is a doubly linked list of elements (container/list), front = *)
(* most recently used, a map from key to list element, and the running     *)
(* byte total nbytes.  List elements are heap objects: the model names     *)
(* them by an identifier, keeps the list as the sequence of identifiers    *)
(* from front to back and the map as a function from keys to identifiers.  *)
(*                                                                         *)
(* Control: Get, Len and the two branches of Add are single steps.  Add    *)
(* then sits in its eviction loop (a frame "Add" on the stack), one        *)
(* iteration per step; RemoveOldest calls OnEvicted synchronously, and     *)
(* while the callback runs a frame "RemoveOldest" is on top of the stack.  *)
(* The callbacks of Spec do not call back into the cache; those of          *)
(* ReentrantSpec may call any method of the cache while they run.          *)
(***************************************************************************)
EXTENDS Integers, Sequences, FiniteSets, TLC

\* ---------------------------------------------------------------- bounds
Keys == {"a", "b", "cc"}           \* the keys the callers use
ValueNames == {"p", "q"}           \* distinguishes values of equal Len()
MaxValueLen == 1                   \* Value.Len() ranges over 0..MaxValueLen
MaxBudget == 4                     \* maxBytes ranges over -1..MaxBudget
MaxDepth == 3                      \* a callback makes no call from a deeper stack

Budgets == (0 - 1)..MaxBudget
Values == [name : ValueNames, len : 0..MaxValueLen]

\* ------------------------------------------------- values of the Go types
NilValue == [name |-> "nil", len |-> 0]          \* the nil Value interface
NilEntry == [key |-> "", value |-> NilValue]     \* no entry at this address
NilElem == 0                                     \* the nil *list.Element
ElemIds == 1..(Cardinality(Keys) + 1)            \* heap addresses
\* a miss that reports found = true
NoRetFound == [value |-> NilValue, ok |-> TRUE, n |-> 0]

NoRet == [value |-> NilValue, ok |-> FALSE, n |-> 0]

VARIABLES
    maxBytes,       \* Cache.maxBytes
    nbytes,         \* Cache.nbytes
    ll,             \* Cache.ll: element identifiers, front first
    cache,          \* Cache.cache: key -> element identifier or NilElem
    elems,          \* heap: element identifier -> *entry (NilEntry if free)
    hasOnEvicted,   \* Cache.OnEvicted != nil
    reenters,       \* the OnEvicted given to New calls methods of the cache
    stack,          \* call stack of the cache's methods, innermost last
    op,             \* the latest call made: hit tells whether its key was
                    \* found in the map, readd whether the call before it
                    \* had evicted its key
    ret,            \* what the last completed call returned
    evicted,        \* the (key, value) pairs OnEvicted received in this call
    removed,        \* history: entries unlinked from the list in this call
    stored,         \* history: value of the latest Add of a resident key
    accessOrder     \* history: resident keys, latest access first

vars == <<maxBytes, nbytes, ll, cache, elems, hasOnEvicted, reenters, stack,
          op, ret, evicted, removed, stored, accessOrder>>

\* -------------------------------------------------------- container/list
InList(l, e) == \E i \in 1..Len(l) : l[i] = e

\* a Back that returns the front element
BackIsFront(l) == IF l = <<>> THEN NilElem ELSE l[1]

Back(l) == IF l = <<>> THEN NilElem ELSE l[Len(l)]

\* a Remove that leaves the element in the list
RemoveKeepsElement(l, e) == l

Remove(l, e) == SelectSeq(l, LAMBDA x : x # e)

\* a PushFront that links the new element at the back
PushBack(l, e) == l \o <<e>>

PushFront(l, e) == <<e>> \o l

\* a MoveToFront that exchanges the element with the front one
MoveToFrontSwap(l, e) ==
    [i \in 1..Len(l) |-> IF l[i] = e THEN l[1] ELSE IF i = 1 THEN e ELSE l[i]]

\* a MoveToFront that leaves the element where it is
MoveToFrontNoMove(l, e) == l

MoveToFront(l, e) ==
    IF ~InList(l, e) \/ l[1] = e THEN l ELSE <<e>> \o Remove(l, e)

\* ------------------------------------------------------------------ heap
Reachable(l, m) == {l[i] : i \in 1..Len(l)} \cup {m[k] : k \in Keys}

\* the address PushFront's new element gets: any address not in use
NewElem == CHOOSE e \in ElemIds :
    /\ e \notin Reachable(ll, cache)
    /\ \A f \in ElemIds : f \notin Reachable(ll, cache) => e <= f

\* ------------------------------------------------------------ accounting
ValueLen(v) == v.len

\* a RemoveOldest that takes off the value's size only
RemovedBytesNoKey(kv) == ValueLen(kv.value)

RemovedBytes(kv) == Len(kv.key) + ValueLen(kv.value)

\* an update that takes the difference the wrong way round
UpdateDeltaSwapped(value, old) == ValueLen(old) - ValueLen(value)

\* an update that adds the new size without taking off the old one
UpdateDeltaNoOld(value, old) == ValueLen(value)

UpdateDelta(value, old) == ValueLen(value) - ValueLen(old)

\* an insertion that counts the value's size only
AddedBytesNoKey(key, value) == ValueLen(value)

AddedBytes(key, value) == Len(key) + ValueLen(value)

\* an update that keeps the old value in the entry
UpdatedEntryKeepsOld(kv, value) == kv

UpdatedEntry(kv, value) == [kv EXCEPT !.value = value]

\* a RemoveOldest that leaves the key in the map
MapDeleteSkipped(m, key) == m

MapDelete(m, key) == [m EXCEPT ![key] = NilElem]

\* a callback that gets the key without its value
CallbackArgsNilValue(kv) == <<kv.key, NilValue>>

CallbackArgs(kv) == <<kv.key, kv.value>>

\* a loop that also evicts when the total equals the budget
ExceedsOrEqual == maxBytes # 0 /\ maxBytes <= nbytes

\* a loop that tolerates one byte too many
ExceedsOffByOne == maxBytes # 0 /\ maxBytes + 1 < nbytes

\* a loop that always keeps one entry
ExceedsKeepOne == maxBytes # 0 /\ maxBytes < nbytes /\ Len(ll) > 1

\* a loop that takes maxBytes = 0 for a budget of zero bytes
ExceedsNoZeroCheck == maxBytes < nbytes

\* the condition of Add's eviction loop
Exceeds == maxBytes # 0 /\ maxBytes < nbytes

\* --------------------------------------------------------------- history
Touch(s, key) == <<key>> \o SelectSeq(s, LAMBDA x : x # key)

Forget(s, key) == SelectSeq(s, LAMBDA x : x # key)

Top(s) == s[Len(s)]

Pop(s) == SubSeq(s, 1, Len(s) - 1)

\* a method may be called between calls, and by a callback that re-enters
CallAllowed ==
    \/ stack = <<>>
    \/ /\ reenters
       /\ stack # <<>>
       /\ Top(stack) = "RemoveOldest"
       /\ Len(stack) < MaxDepth

\* ------------------------------------------------------------------ Init
Init ==
    /\ maxBytes \in Budgets
    /\ hasOnEvicted \in BOOLEAN
    /\ reenters = FALSE
    /\ nbytes = 0
    /\ ll = <<>>
    /\ cache = [k \in Keys |-> NilElem]
    /\ elems = [e \in ElemIds |-> NilEntry]
    /\ stack = <<>>
    /\ op = [name |-> "New", key |-> "", value |-> NilValue, hit |-> FALSE,
             readd |-> FALSE]
    /\ ret = NoRet
    /\ evicted = <<>>
    /\ removed = <<>>
    /\ stored = [k \in Keys |-> NilValue]
    /\ accessOrder = <<>>

\* New with a callback that calls back into the cache
ReentrantInit ==
    /\ maxBytes \in Budgets
    /\ hasOnEvicted = TRUE
    /\ reenters = TRUE
    /\ nbytes = 0
    /\ ll = <<>>
    /\ cache = [k \in Keys |-> NilElem]
    /\ elems = [e \in ElemIds |-> NilEntry]
    /\ stack = <<>>
    /\ op = [name |-> "New", key |-> "", value |-> NilValue, hit |-> FALSE,
             readd |-> FALSE]
    /\ ret = NoRet
    /\ evicted = <<>>
    /\ removed = <<>>
    /\ stored = [k \in Keys |-> NilValue]
    /\ accessOrder = <<>>

\* --------------------------------------------------------------- actions
Get(key) ==
    /\ CallAllowed
    /\ LET ele == cache[key] IN
       IF ele # NilElem
       THEN /\ ll' = MoveToFront(ll, ele)
            /\ ret' = [value |-> elems[ele].value, ok |-> TRUE, n |-> 0]
            /\ accessOrder' = Touch(accessOrder, key)
       ELSE /\ ll' = ll
            /\ ret' = NoRet
            /\ accessOrder' = accessOrder
    /\ op' = [name |-> "Get", key |-> key, value |-> NilValue,
              hit |-> cache[key] # NilElem, readd |-> FALSE]
    /\ evicted' = <<>>
    /\ removed' = <<>>
    /\ UNCHANGED <<maxBytes, nbytes, cache, elems, hasOnEvicted, reenters,
                   stack, stored>>

\* The body of RemoveOldest, called with s as the caller's stack and log, rem
\* as the caller's evicted and removed records.
RemoveOldest(s, log, rem) ==
    LET ele == Back(ll) IN
    IF ele # NilElem
    THEN LET kv == elems[ele] IN
         /\ ll' = Remove(ll, ele)
         /\ cache' = MapDelete(cache, kv.key)
         /\ elems' = [elems EXCEPT ![ele] =
                        IF \E k \in Keys : cache'[k] = ele THEN @ ELSE NilEntry]
         /\ nbytes' = nbytes - RemovedBytes(kv)
         /\ IF hasOnEvicted
            THEN /\ evicted' = Append(log, CallbackArgs(kv))
                 /\ stack' = Append(s, "RemoveOldest")
            ELSE /\ evicted' = log
                 /\ stack' = s
         /\ removed' = Append(rem, <<kv.key, stored[kv.key]>>)
         /\ stored' = [stored EXCEPT ![kv.key] = NilValue]
         /\ accessOrder' = Forget(accessOrder, kv.key)
    ELSE /\ stack' = s
         /\ evicted' = log
         /\ removed' = rem
         /\ UNCHANGED <<ll, cache, elems, nbytes, stored, accessOrder>>

RemoveOldestCall ==
    /\ CallAllowed
    /\ RemoveOldest(stack, <<>>, <<>>)
    /\ op' = [name |-> "RemoveOldest", key |-> "", value |-> NilValue,
              hit |-> FALSE, readd |-> FALSE]
    /\ ret' = NoRet
    /\ UNCHANGED <<maxBytes, hasOnEvicted, reenters>>

OnEvictedReturn ==
    /\ stack # <<>>
    /\ Top(stack) = "RemoveOldest"
    /\ stack' = Pop(stack)
    /\ UNCHANGED <<maxBytes, nbytes, ll, cache, elems, hasOnEvicted, reenters,
                   op, ret, evicted, removed, stored, accessOrder>>

Add(key, value) ==
    /\ CallAllowed
    /\ LET ele == cache[key] IN
       IF ele # NilElem
       THEN LET kv == elems[ele] IN
            /\ ll' = MoveToFront(ll, ele)
            /\ nbytes' = nbytes + UpdateDelta(value, kv.value)
            /\ elems' = [elems EXCEPT ![ele] = UpdatedEntry(kv, value)]
            /\ cache' = cache
       ELSE LET newEle == NewElem IN
            /\ ll' = PushFront(ll, newEle)
            /\ elems' = [elems EXCEPT ![newEle] = [key |-> key, value |-> value]]
            /\ cache' = [cache EXCEPT ![key] = newEle]
            /\ nbytes' = nbytes + AddedBytes(key, value)
    /\ stack' = Append(stack, "Add")
    /\ op' = [name |-> "Add", key |-> key, value |-> value,
              hit |-> cache[key] # NilElem,
              readd |-> \E i \in 1..Len(removed) : removed[i][1] = key]
    /\ ret' = NoRet
    /\ evicted' = <<>>
    /\ removed' = <<>>
    /\ stored' = [stored EXCEPT ![key] = value]
    /\ accessOrder' = Touch(accessOrder, key)
    /\ UNCHANGED <<maxBytes, hasOnEvicted, reenters>>

\* One evaluation of the condition of Add's for loop, and the call of
\* RemoveOldest it leads to, or the return of Add.
AddLoop ==
    /\ stack # <<>>
    /\ Top(stack) = "Add"
    /\ IF Exceeds
       THEN RemoveOldest(stack, evicted, removed)
       ELSE /\ stack' = Pop(stack)
            /\ UNCHANGED <<nbytes, ll, cache, elems, evicted, removed, stored,
                           accessOrder>>
    /\ UNCHANGED <<maxBytes, hasOnEvicted, reenters, op, ret>>

LenCall ==
    /\ CallAllowed
    /\ ret' = [value |-> NilValue, ok |-> FALSE, n |-> Len(ll)]
    /\ op' = [name |-> "Len", key |-> "", value |-> NilValue, hit |-> FALSE,
              readd |-> FALSE]
    /\ evicted' = <<>>
    /\ removed' = <<>>
    /\ UNCHANGED <<maxBytes, nbytes, ll, cache, elems, hasOnEvicted, reenters,
                   stack, stored, accessOrder>>

Next ==
    \/ \E key \in Keys : Get(key)
    \/ \E key \in Keys, value \in Values : Add(key, value)
    \/ RemoveOldestCall
    \/ LenCall
    \/ AddLoop
    \/ OnEvictedReturn

Spec == Init /\ [][Next]_vars

\* Each step of a call is taken eventually: the program runs on one thread
\* and nothing suspends it.
FairSpec == Spec /\ WF_vars(Next)

\* The example of the specification's section 8: a budget of 10 bytes and
\* entries of 5 bytes each (the value sized to its key).
ScenarioBudgets == {10}

ScenarioValue(key) == [name |-> "p", len |-> 5 - Len(key)]

ScenarioInit ==
    /\ maxBytes \in Budgets \cup ScenarioBudgets
    /\ hasOnEvicted \in BOOLEAN
    /\ reenters = FALSE
    /\ nbytes = 0
    /\ ll = <<>>
    /\ cache = [k \in Keys |-> NilElem]
    /\ elems = [e \in ElemIds |-> NilEntry]
    /\ stack = <<>>
    /\ op = [name |-> "New", key |-> "", value |-> NilValue, hit |-> FALSE,
             readd |-> FALSE]
    /\ ret = NoRet
    /\ evicted = <<>>
    /\ removed = <<>>
    /\ stored = [k \in Keys |-> NilValue]
    /\ accessOrder = <<>>

ScenarioAdd(key) == maxBytes \in ScenarioBudgets /\ Add(key, ScenarioValue(key))

ScenarioNext == Next \/ \E key \in Keys : ScenarioAdd(key)

\* the cache with the budgets of Spec and the budget and entries of the example
ScenarioSpec == ScenarioInit /\ [][ScenarioNext]_vars

\* the cache with a callback that calls back into it
ReentrantSpec == ReentrantInit /\ [][Next]_vars

\* ------------------------------------------------- what a caller observes
Idle == stack = <<>>

\* a public call has been made and has returned
Completed == Idle /\ op.name # "New"

InCallback == stack # <<>> /\ Top(stack) = "RemoveOldest"

ListKeySeq == [i \in 1..Len(ll) |-> elems[ll[i]].key]

ListKeys == {ListKeySeq[i] : i \in 1..Len(ll)}

IndexKeys == {k \in Keys : cache[k] # NilElem}

RECURSIVE SumBytes(_)
SumBytes(l) ==
    IF l = <<>> THEN 0
    ELSE Len(elems[Head(l)].key) + elems[Head(l)].value.len + SumBytes(Tail(l))

ResidentBytes == SumBytes(ll)

RemovedKeys == {removed[i][1] : i \in 1..Len(removed)}

OpCost == Len(op.key) + op.value.len

\* ------------------------------------------------------------------- C1
\* C1 as stated: with maxBytes # 0, after every completed public operation
\* the sizes of the resident entries add up to at most maxBytes.
C1_CapacityAnyNonZeroBudget ==
    (Completed /\ maxBytes # 0) => ResidentBytes <= maxBytes

\* C1 amended: with maxBytes > 0, after every completed public operation the
\* sizes of the resident entries add up to at most maxBytes.
C1_CapacityPositiveBudget ==
    (Completed /\ maxBytes > 0) => ResidentBytes <= maxBytes

\* an Add that had to evict has returned and left entries behind
C1_Witness ==
    /\ Completed /\ maxBytes > 0
    /\ op.name = "Add" /\ removed # <<>> /\ Len(ll) >= 2
    /\ ResidentBytes = maxBytes

\* ------------------------------------------------------------------- C2
\* C2: the list holds the resident keys in the order of their latest access
\* (Get hit or Add), latest first, and every step that makes a key leave the
\* cache removes the key whose latest access is the oldest.
C2_EvictsLeastRecentlyUsed ==
    /\ [](ListKeySeq = accessOrder)
    /\ [][\A k \in ListKeys \ ListKeys' :
             accessOrder # <<>> /\ k = accessOrder[Len(accessOrder)]]_vars

\* an Add of a new key has evicted one of two older entries and kept the other
C2_Witness ==
    /\ Idle /\ op.name = "Add" /\ ~op.hit /\ maxBytes > 0
    /\ Len(removed) = 1 /\ Len(ll) = 2
    /\ removed[1][1] = "b" /\ ListKeySeq = <<"cc", "a">>

\* ------------------------------------------------------------------- C3
\* C3: between operations nbytes is exactly the sum of len(key) + value.Len()
\* over the entries in the list.
C3_ByteAccounting == Idle => nbytes = ResidentBytes

\* an update of a resident key grew the total and forced an eviction
C3_Witness ==
    /\ Idle /\ op.name = "Add" /\ op.hit
    /\ removed # <<>> /\ ll # <<>> /\ nbytes > 0

\* ------------------------------------------------------------------- C4
IndexConsistent ==
    /\ IndexKeys = ListKeys
    /\ \A i, j \in 1..Len(ll) : ListKeySeq[i] = ListKeySeq[j] => i = j
    /\ \A k \in IndexKeys : InList(ll, cache[k]) /\ elems[cache[k]].key = k

CacheState == <<maxBytes, nbytes, ll, cache, elems, hasOnEvicted>>

\* C4: between operations the map and the list hold the same keys, each once,
\* every map value is the list element of its key, and Len returns their
\* number and changes nothing.
C4_IndexOrderConsistent ==
    /\ [](Idle => IndexConsistent)
    /\ []((Idle /\ op.name = "Len") => ret.n = Cardinality(IndexKeys))
    /\ [][op'.name = "Len" => CacheState' = CacheState]_vars

\* Len has counted two entries of a cache that has evicted before
C4_Witness ==
    /\ Idle /\ op.name = "Len" /\ ret.n = 2
    /\ Cardinality(IndexKeys) = 2 /\ maxBytes > 0 /\ nbytes = maxBytes

\* ------------------------------------------------------------------- C5
\* C5: OnEvicted is called once per eviction, in order, with the evicted key
\* and the value of the latest Add of that key, and never otherwise; while it
\* runs the entry is in neither the map nor the list and nbytes is already
\* reduced; a Get of an evicted key right after the call misses.
C5_CallbackFidelity ==
    /\ [](evicted = IF hasOnEvicted THEN removed ELSE <<>>)
    /\ [](InCallback =>
            LET k == evicted[Len(evicted)][1] IN
            /\ cache[k] = NilElem
            /\ k \notin ListKeys
            /\ nbytes = ResidentBytes)
    /\ [][(op'.name = "Get" /\ op'.key \in RemovedKeys) => ~ret'.ok]_vars

\* the callback runs for the second eviction of one Add
C5_Witness ==
    /\ InCallback /\ Len(stack) = 2 /\ Len(evicted) = 2
    /\ evicted[2][2] \in Values

\* ------------------------------------------------------------------- C6
\* C6: with maxBytes > 0, an Add whose own entry costs more than maxBytes
\* returns with an empty cache and nbytes = 0, and the entry it wrote is the
\* last one evicted (and the last one OnEvicted was called for).
C6_OversizedAddEmptiesCache ==
    (Idle /\ op.name = "Add" /\ maxBytes > 0 /\ OpCost > maxBytes) =>
        /\ ll = <<>>
        /\ IndexKeys = {}
        /\ nbytes = 0
        /\ removed # <<>>
        /\ removed[Len(removed)] = <<op.key, op.value>>
        /\ hasOnEvicted => evicted[Len(evicted)] = <<op.key, op.value>>

\* an oversized Add evicted two older entries and then its own
C6_Witness ==
    /\ Idle /\ op.name = "Add" /\ maxBytes > 0 /\ OpCost > maxBytes
    /\ Len(evicted) = 3

\* ------------------------------------------------------------------- C7
\* C7 as stated: the evictions of Add(k, v) never remove k, and whenever
\* nbytes > maxBytes # 0 after a public operation the cache holds exactly one
\* entry, whose own size exceeds maxBytes.
C7_OversizedEntryKept ==
    /\ op.name = "Add" => op.key \notin RemovedKeys
    /\ (Completed /\ maxBytes # 0 /\ nbytes > maxBytes) =>
           Len(ll) = 1 /\ ResidentBytes > maxBytes

\* C7 amended: the evictions of Add(k, v) remove k itself only when the cost
\* of k alone exceeds maxBytes, and with maxBytes > 0 no public operation
\* returns with nbytes > maxBytes or with a resident entry larger than
\* maxBytes.
C7_SelfEvictionOnlyWhenOversized ==
    /\ (op.name = "Add" /\ op.key \in RemovedKeys) => OpCost > maxBytes
    /\ (Completed /\ maxBytes > 0) =>
           /\ nbytes <= maxBytes
           /\ \A i \in 1..Len(ll) : SumBytes(<<ll[i]>>) <= maxBytes

\* an Add has evicted the entry it wrote
C7_Witness ==
    /\ Idle /\ op.name = "Add" /\ maxBytes > 0
    /\ op.key \in RemovedKeys /\ Len(removed) = 2

\* ------------------------------------------------------------------- C8
\* C8: every call returns: whatever maxBytes, state, key and value, the
\* cache is idle again after finitely many steps.
C8_EveryCallReturns == []<>Idle

\* ------------------------------------------------------------------- C9
\* C9: with maxBytes = 0 no Add and no Get removes an entry or calls
\* OnEvicted: each of them keeps every resident key, an Add leaves its key
\* resident (so N distinct keys added are N entries, all found by Get).
C9_UnboundedNeverEvicts ==
    /\ []((maxBytes = 0 /\ op.name \in {"Add", "Get"}) =>
             removed = <<>> /\ evicted = <<>>)
    /\ []((maxBytes = 0 /\ op.name = "Add") =>
             op.key \in ListKeys /\ cache[op.key] # NilElem)
    /\ [][(maxBytes = 0 /\ op'.name \in {"Add", "Get"}) =>
             /\ ListKeys \subseteq ListKeys'
             /\ Len(ll') = Cardinality(ListKeys \cup
                   (IF op'.name = "Add" THEN {op'.key} ELSE {}))]_vars

\* three distinct keys added, more bytes than any budget of the model
C9_Witness ==
    /\ maxBytes = 0 /\ Idle /\ op.name = "Add"
    /\ Len(ll) = 3 /\ nbytes > MaxBudget

\* ------------------------------------------------------------------ C10
\* C10: a Get of a resident key returns found = true and the value of the
\* latest Add of that key.
C10_GetReturnsLatestValue ==
    (Idle /\ op.name = "Get" /\ op.key \in ListKeys) =>
        ret.ok /\ ret.value = stored[op.key]

\* a hit on the least recently used of three entries
C10_Witness ==
    /\ Idle /\ op.name = "Get" /\ ret.ok /\ ret.value \in Values
    /\ Len(ll) = 3 /\ maxBytes > 0

\* ------------------------------------------------------------------ C11
\* the fields of the cache and the recency order of its keys
Observable == <<CacheState, ListKeySeq, IndexKeys, Len(ll)>>

\* C11: a Get of a key that is not resident returns found = false and the
\* nil value, changes no field of the cache (Len, nbytes, map, list and its
\* order are as before) and calls no callback.
C11_MissChangesNothing ==
    [][(op'.name = "Get" /\ op'.key \notin ListKeys) =>
          /\ ~ret'.ok
          /\ ret'.value = NilValue
          /\ Observable' = Observable
          /\ evicted' = <<>>
          /\ stack' = <<>>]_vars

\* a Get has missed a key while two other keys are resident
C11_Witness ==
    /\ Idle /\ op.name = "Get" /\ ~op.hit /\ ~ret.ok
    /\ op.key \notin ListKeys /\ Len(ll) = 2 /\ maxBytes > 0

\* ------------------------------------------------------------------ C12
\* C12: a Get of a resident key moves that key to the front of the list and
\* changes nothing else: nbytes, the map, every entry and the order of the
\* other keys stay, nothing is evicted and no callback runs.
C12_HitOnlyMovesKey ==
    [][(op'.name = "Get" /\ op'.key \in ListKeys) =>
          /\ ListKeySeq' = Touch(ListKeySeq, op'.key)
          /\ ll' = <<cache[op'.key]>> \o Remove(ll, cache[op'.key])
          /\ nbytes' = nbytes
          /\ cache' = cache
          /\ elems' = elems
          /\ stored' = stored
          /\ evicted' = <<>> /\ removed' = <<>>
          /\ stack' = <<>>]_vars

\* a hit on the last of three entries
C12_Witness ==
    /\ Idle /\ op.name = "Get" /\ op.hit /\ Len(ll) = 3
    /\ ListKeySeq = <<"cc", "a", "b">> /\ maxBytes > 0

\* ------------------------------------------------------------------ C13
\* the step of Add up to its eviction loop, for a key that is resident:
\* the entry count and key set stay, nbytes moves by the difference of the
\* value sizes, the key is in front and holds the new value
UpdateInPlace ==
    (op'.name = "Add" /\ stack = <<>> /\ op'.key \in ListKeys) =>
        /\ Len(ll') = Len(ll)
        /\ ListKeys' = ListKeys
        /\ Cardinality(ListKeys') = Len(ll')
        /\ nbytes' = nbytes + op'.value.len - elems[cache[op'.key]].value.len
        /\ ListKeySeq'[1] = op'.key
        /\ elems'[cache'[op'.key]].value = op'.value

\* an Add of the only key of the cache has returned
UpdatedOnlyKey ==
    Idle /\ op.name = "Add" /\ op.hit /\ Len(ll) + Len(removed) = 1

\* C13 as stated: an Add of a resident key updates in place (count unchanged,
\* nbytes changed by v2.Len() - v1.Len(), key in front, value v2), so that
\* Add(k, v1); Add(k, v2) on an empty cache gives Len() = 1 and a total of
\* len(k) + v2.Len().
C13_UpdateKeepsOneEntry ==
    /\ [][UpdateInPlace]_vars
    /\ [](UpdatedOnlyKey => Len(ll) = 1 /\ nbytes = OpCost)

\* C13 amended: the update is in place as stated, and Add(k, v1); Add(k, v2)
\* gives Len() = 1 and a total of len(k) + v2.Len() when maxBytes = 0 or
\* len(k) + v2.Len() <= maxBytes; otherwise the eviction loop that follows
\* the update removes k and the cache is empty.
C13_UpdateInPlace ==
    /\ [][UpdateInPlace]_vars
    /\ [](UpdatedOnlyKey =>
            IF maxBytes = 0 \/ OpCost <= maxBytes
            THEN Len(ll) = 1 /\ nbytes = OpCost /\ removed = <<>>
                 /\ elems[ll[1]] = [key |-> op.key, value |-> op.value]
            ELSE ll = <<>> /\ nbytes = 0)

\* the only key of a bounded cache was updated and stayed
C13_Witness ==
    /\ UpdatedOnlyKey /\ maxBytes > 0 /\ Len(ll) = 1
    /\ op.value.len = 0 /\ nbytes = OpCost /\ op.key = "cc"

\* ------------------------------------------------------------------ C14
LastRemovedBytes ==
    Len(removed[Len(removed)][1]) + removed[Len(removed)][2].len

\* C14: Add evicts only while nbytes > maxBytes # 0 and returns as soon as
\* that is false: a total equal to maxBytes evicts nothing, and the last
\* entry an Add evicted had to go (with it the total was above maxBytes).
\* With budget 10 and entries of cost 5, the third Add evicts the first
\* entry only and leaves the other two with a total of 10.
C14_StrictMinimalEviction ==
    /\ [][(stack = <<"Add">> /\ Len(ll') < Len(ll)) =>
             maxBytes # 0 /\ nbytes > maxBytes]_vars
    /\ [][(stack = <<"Add">> /\ (maxBytes = 0 \/ nbytes <= maxBytes)) =>
             stack' = <<>> /\ CacheState' = CacheState]_vars
    /\ []((op.name = "Add" /\ removed # <<>>) =>
             nbytes + LastRemovedBytes > maxBytes)
    /\ []((Idle /\ op.name = "Add" /\ ~op.hit /\ maxBytes = 10
           /\ OpCost = 5 /\ Len(removed) + Len(ll) = 3
           /\ \A i \in 1..Len(ll) : SumBytes(<<ll[i]>>) = 5) =>
             /\ Len(removed) = 1 /\ nbytes = 10
             /\ ListKeySeq[1] = op.key)

\* budget 10: a and b of cost 5 each were resident, Add of cc (cost 5) has
\* evicted a and left b and cc with a total of 10
C14_Witness ==
    /\ Idle /\ maxBytes = 10 /\ op.name = "Add" /\ op.key = "cc" /\ OpCost = 5
    /\ Len(removed) = 1 /\ removed[1][1] = "a" /\ LastRemovedBytes = 5
    /\ ListKeySeq = <<"cc", "b">> /\ nbytes = 10
    /\ SumBytes(<<ll[2]>>) = 5

\* ------------------------------------------------------------------ C15
\* C15: a direct call of RemoveOldest on an empty cache changes nothing and
\* calls no callback; on a non-empty cache it removes the last element of the
\* list, which holds the least recently used key, from list and map, takes
\* len(key) + value.Len() of that entry off nbytes, whatever the budget, and
\* leaves the other entries and their order as they were.
C15_DirectRemoveOldest ==
    [][(op'.name = "RemoveOldest" /\ stack = <<>>) =>
          IF ll = <<>>
          THEN /\ CacheState' = CacheState
               /\ nbytes' = 0
               /\ evicted' = <<>> /\ removed' = <<>>
               /\ stack' = <<>>
          ELSE LET e == ll[Len(ll)]
                   kv == elems[e]
               IN  /\ kv.key = accessOrder[Len(accessOrder)]
                   /\ ll' = SubSeq(ll, 1, Len(ll) - 1)
                   /\ ListKeySeq' = SubSeq(ListKeySeq, 1, Len(ll) - 1)
                   /\ cache' = [cache EXCEPT ![kv.key] = NilElem]
                   /\ nbytes' = nbytes - (Len(kv.key) + kv.value.len)
                   /\ \A i \in 1..Len(ll') : elems'[ll'[i]] = elems[ll'[i]]
                   /\ removed' = <<<<kv.key, kv.value>>>>
                   /\ evicted' = IF hasOnEvicted THEN removed' ELSE <<>>]_vars

\* RemoveOldest was called on three entries that were within the budget
C15_Witness ==
    /\ Idle /\ op.name = "RemoveOldest" /\ maxBytes > 0
    /\ Len(removed) = 1 /\ Len(ll) = 2
    /\ nbytes + LastRemovedBytes <= maxBytes

\* ------------------------------------------------------------------ C16
\* a call made by the callback is in progress: a frame sits on top of the
\* frame of the RemoveOldest whose callback runs
Reentered == \E i \in 1..(Len(stack) - 1) : stack[i] = "RemoveOldest"

\* C16 as stated: once the callback has called back into the cache during an
\* eviction, the map and the list disagree on the resident keys or nbytes is
\* not the sum of the resident entries' sizes.
C16_ReentrancyCorrupts ==
    Reentered => ~(IndexConsistent /\ nbytes = ResidentBytes)

\* C16 amended: calls of Add, Get, RemoveOldest and Len made by the callback
\* during an eviction do not corrupt the cache: in every state, inside the
\* callbacks and the nested calls too, the map and the list hold the same
\* keys, each map value is the list element of its key, and nbytes is the
\* sum of the resident entries' sizes.
C16_ReentrancyKeepsConsistency ==
    /\ IndexConsistent
    /\ nbytes = ResidentBytes
    /\ Reentered => hasOnEvicted /\ reenters

\* the callback of an Add's eviction has called Add, which evicts in turn
C16_Witness ==
    /\ stack = <<"Add", "RemoveOldest", "Add", "RemoveOldest">>
    /\ op.name = "Add" /\ Len(ll) >= 1

\* ------------------------------------------------------------------ C17
\* what the insert branch of Add does to a cache that does not hold the key
InsertsAsNew ==
    (op'.name = "Add" /\ stack = <<>> /\ op'.key \notin ListKeys) =>
        /\ ~op'.hit
        /\ nbytes' = nbytes + Len(op'.key) + op'.value.len
        /\ Len(ll') = Len(ll) + 1
        /\ Tail(ll') = ll
        /\ ~InList(ll, ll'[1])
        /\ elems'[ll'[1]] = [key |-> op'.key, value |-> op'.value]
        /\ \A i \in 1..Len(ll) : elems'[ll[i]] = elems[ll[i]]
        /\ cache' = [cache EXCEPT ![op'.key] = ll'[1]]

\* C17: a key that is not resident, evicted before or never seen, has no
\* map entry and no element left, and an Add of it takes the insert branch:
\* nbytes grows by len(key) + value.Len(), the new entry is in front, and
\* the rest of the cache is as before, whatever the key's history.
C17_EvictionLeavesNoResidue ==
    /\ [](\A k \in Keys \ ListKeys :
            cache[k] = NilElem /\ \A e \in ElemIds : elems[e].key # k)
    /\ [][InsertsAsNew]_vars

\* a key evicted by the call before was added again and is resident
C17_Witness ==
    /\ Idle /\ op.name = "Add" /\ op.readd /\ ~op.hit
    /\ op.key \in ListKeys /\ Len(ll) = 2 /\ maxBytes > 0

\* ------------------------------------------------------------------ C18
\* the Add in progress or just returned wrote an entry that fits the budget
FittingAdd == op.name = "Add" /\ maxBytes > 0 /\ OpCost <= maxBytes

\* C18: with maxBytes > 0, an Add whose own entry costs at most maxBytes
\* returns with its key resident and holding its value, the key was not
\* evicted and not passed to OnEvicted during that Add, and a Get of the key
\* right after returns the value.  During any Add the key written is the
\* front of the list, so it is the last entry the loop can evict.
C18_FittingEntrySurvives ==
    /\ []((Idle /\ FittingAdd) =>
            /\ op.key \in ListKeys
            /\ cache[op.key] # NilElem
            /\ elems[cache[op.key]] = [key |-> op.key, value |-> op.value]
            /\ op.key \notin RemovedKeys
            /\ \A i \in 1..Len(evicted) : evicted[i][1] # op.key)
    /\ []((op.name = "Add" /\ op.key \in ListKeys) => ListKeySeq[1] = op.key)
    /\ []((op.name = "Add" /\ op.key \in RemovedKeys) => ll = <<>>)
    /\ [][(FittingAdd /\ op'.name = "Get" /\ op'.key = op.key) =>
             ret'.ok /\ ret'.value = op.value]_vars

\* an Add that fits has evicted two older entries and kept its own
C18_Witness ==
    /\ Idle /\ FittingAdd /\ ~op.hit
    /\ Len(removed) = 2 /\ ListKeySeq = <<op.key>> /\ hasOnEvicted

\* ------------------------------------------------------------------ C19
\* 1 for the step of an Add that takes the insert branch, 0 for other steps
InsertedByStep ==
    IF op'.name = "Add" /\ stack = <<>> /\ stack' # <<>> /\ ~op'.hit
    THEN 1 ELSE 0

\* the callbacks and the evictions the step adds to those of the call (the
\* records start again with each public call)
CallbacksOfStep == Len(evicted') - (IF stack = <<>> THEN 0 ELSE Len(evicted))

EvictionsOfStep == Len(removed') - (IF stack = <<>> THEN 0 ELSE Len(removed))

\* every eviction of a key follows an Add of that key that is later than
\* the key's previous eviction
EvictedAfterAdd == \A i \in 1..Len(removed) : removed[i][2] \in Values

\* C19 as stated, for the caches all of whose calls return (maxBytes >= 0):
\* inserting Adds minus OnEvicted invocations equals Len(), that is, every
\* step changes Len() by the inserts it makes minus the callbacks it invokes
\* (Len() is 0 after New); and no key is evicted twice without an Add of it
\* in between.
C19_InsertsMinusCallbacks ==
    /\ [][maxBytes >= 0 =>
             Len(ll') = Len(ll) + InsertedByStep - CallbacksOfStep]_vars
    /\ [](EvictedAfterAdd)

\* C19 amended: inserting Adds minus evictions (entries RemoveOldest removed,
\* each followed by one OnEvicted call if a callback is configured and by
\* none if OnEvicted is nil) equals Len(); and no key is evicted twice
\* without an Add of it in between.
C19_InsertsMinusEvictions ==
    /\ [][Len(ll') = Len(ll) + InsertedByStep - EvictionsOfStep]_vars
    /\ [](hasOnEvicted => evicted = removed)
    /\ [](~hasOnEvicted => evicted = <<>>)
    /\ [](EvictedAfterAdd)

\* without a callback, an inserting Add has evicted two entries
C19_Witness ==
    /\ Idle /\ ~hasOnEvicted /\ op.name = "Add" /\ ~op.hit
    /\ Len(removed) = 2 /\ Len(ll) = 1 /\ evicted = <<>>

====
